---- MODULE Spec2Model ----
(***************************************************************************)
(* The in-memory task API of task1-testing/src/app.js as a state machine.  *)
(* The state is the module-level array `tasks`; every Express handler is   *)
(* synchronous, so one request is one atomic action.                       *)
(*                                                                         *)
(* JavaScript values are records [t, s, n]: t is the kind, s the UTF-16    *)
(* code units of a string, n the value of a number (or 0/1 of a boolean).  *)
(* A key that is absent from a JSON body or from the query string reads as *)
(* undefined, so absent fields are carried as Undefined.                   *)
(***************************************************************************)
EXTENDS Integers, Sequences, FiniteSets, Bags, TLC

VARIABLES tasks, nextId, now, resp

\* The users API of task3-unknown-language/main.go: the rows of the table
\* `users`, the AUTOINCREMENT sequence of the table, the handlers that
\* have run their INSERT or UPDATE and not yet their SELECT, and the last
\* response written
VARIABLES users, lastId, pending, reply

usersVars == <<users, lastId, pending, reply>>

vars == <<tasks, nextId, now, resp, users, lastId, pending, reply>>

-----------------------------------------------------------------------------
(* Bounds of the model *)

\* uuidv4() is called at most MaxTasks times in a behaviour
MaxTasks == 2

\* the wall clock stops advancing at MaxClock
MaxClock == 1

\* the table `users` hands out at most MaxUsers ids in a behaviour
MaxUsers == 2

\* at most MaxCalls handlers of the users API are between their INSERT or
\* UPDATE and their SELECT at the same time
MaxCalls == 2

\* the longest collection of the sorted listings
MaxSorted == 3

-----------------------------------------------------------------------------
(* JavaScript values *)

Undefined == [t |-> "undefined", s |-> <<>>, n |-> 0]
Null      == [t |-> "null", s |-> <<>>, n |-> 0]
NaN       == [t |-> "NaN", s |-> <<>>, n |-> 0]
Infinity  == [t |-> "Infinity", s |-> <<>>, n |-> 0]
Num(k)    == [t |-> "number", s |-> <<>>, n |-> k]
Bool(b)   == [t |-> "boolean", s |-> <<>>, n |-> IF b THEN 1 ELSE 0]
Str(cs)   == [t |-> "string", s |-> cs, n |-> 0]

\* typeof v
TypeOf(v) ==
    CASE v.t = "null" -> "object"
      [] v.t \in {"NaN", "Infinity"} -> "number"
      [] OTHER -> v.t

\* ToBoolean(v): the test made by `v && ...`, `v || ...`, `!v`, `if (v)`
Truthy(v) ==
    CASE v.t = "boolean" -> v.n = 1
      [] v.t = "number" -> v.n # 0
      [] v.t = "string" -> Len(v.s) > 0
      [] v.t = "Infinity" -> TRUE
      [] OTHER -> FALSE

\* v.length of a primitive that is not null or undefined
Length(v) == IF v.t = "string" THEN Num(Len(v.s)) ELSE Undefined

\* x > k for a JavaScript value x and an integer literal k
GreaterThan(x, k) ==
    CASE x.t = "number" -> x.n > k
      [] x.t = "Infinity" -> TRUE
      [] OTHER -> FALSE

Repeat(c, k) == [i \in 1..k |-> c]

\* String.prototype.trim
IsWhiteSpace(c) == c \in {9, 10, 11, 12, 13, 32}

TrimStart(cs) ==
    LET first == CHOOSE i \in 1..(Len(cs) + 1) :
                    /\ i = Len(cs) + 1 \/ ~IsWhiteSpace(cs[i])
                    /\ \A j \in 1..(i - 1) : IsWhiteSpace(cs[j])
    IN  SubSeq(cs, first, Len(cs))

TrimEnd(cs) ==
    LET last == CHOOSE i \in 0..Len(cs) :
                    /\ i = 0 \/ ~IsWhiteSpace(cs[i])
                    /\ \A j \in (i + 1)..Len(cs) : IsWhiteSpace(cs[j])
    IN  SubSeq(cs, 1, last)

Trim(cs) == TrimEnd(TrimStart(cs))

\* String.prototype.toLowerCase on the ASCII range
ToLowerCase(cs) ==
    [i \in 1..Len(cs) |-> IF cs[i] \in 65..90 THEN cs[i] + 32 ELSE cs[i]]

\* String.prototype.includes
Includes(hay, needle) ==
    \E i \in 0..(Len(hay) - Len(needle)) :
        SubSeq(hay, i + 1, i + Len(needle)) = needle

-----------------------------------------------------------------------------
(* String literals of the program, as code units *)

S_low       == <<108, 111, 119>>
S_medium    == <<109, 101, 100, 105, 117, 109>>
S_high      == <<104, 105, 103, 104>>
S_true      == <<116, 114, 117, 101>>
S_false     == <<102, 97, 108, 115, 101>>
S_desc      == <<100, 101, 115, 99>>
S_id        == <<105, 100>>
S_title     == <<116, 105, 116, 108, 101>>
S_description == <<100, 101, 115, 99, 114, 105, 112, 116, 105, 111, 110>>
S_completed == <<99, 111, 109, 112, 108, 101, 116, 101, 100>>
S_priority  == <<112, 114, 105, 111, 114, 105, 116, 121>>
S_createdAt == <<99, 114, 101, 97, 116, 101, 100, 65, 116>>
S_updatedAt == <<117, 112, 100, 97, 116, 101, 100, 65, 116>>

\* uuidv4(): the k-th generated identifier, "u<k>"; distinct calls give
\* distinct identifiers
Uuid(k) == Str(<<117, 48 + k>>)

\* new Date().toISOString() at clock reading k: a fixed-width string, so
\* the order of the strings is the order of the clock readings
Iso(k) == Str(<<84, 48 + k>>)

-----------------------------------------------------------------------------
(* Validation *)

TitleLimit == 200
DescriptionLimit == 1000

MsgTitleRequired == "Title is required and must be a non-empty string"
MsgTitleLength   == "Title must be less than 200 characters"
MsgDescString    == "Description must be a string"
MsgDescLength    == "Description must be less than 1000 characters"
MsgCompleted     == "Completed must be a boolean"
MsgPriority      == "Priority must be one of: low, medium, high"

Priorities == {Str(S_low), Str(S_medium), Str(S_high)}

TitleRuleFails(task) ==
    \/ ~Truthy(task.title)
    \/ TypeOf(task.title) # "string"
    \/ Len(Trim(task.title.s)) = 0

TitleLengthFails(task) ==
    Truthy(task.title) /\ GreaterThan(Length(task.title), TitleLimit)

DescTypeFails(task) ==
    Truthy(task.description) /\ TypeOf(task.description) # "string"

DescLengthFails(task) ==
    Truthy(task.description) /\ GreaterThan(Length(task.description), DescriptionLimit)

CompletedFails(task) ==
    task.completed # Undefined /\ TypeOf(task.completed) # "boolean"

PriorityFails(task) ==
    Truthy(task.priority) /\ task.priority \notin Priorities

validateTask(task) ==
       (IF TitleRuleFails(task) THEN <<MsgTitleRequired>> ELSE <<>>)
    \o (IF TitleLengthFails(task) THEN <<MsgTitleLength>> ELSE <<>>)
    \o (IF DescTypeFails(task) THEN <<MsgDescString>> ELSE <<>>)
    \o (IF DescLengthFails(task) THEN <<MsgDescLength>> ELSE <<>>)
    \o (IF CompletedFails(task) THEN <<MsgCompleted>> ELSE <<>>)
    \o (IF PriorityFails(task) THEN <<MsgPriority>> ELSE <<>>)

-----------------------------------------------------------------------------
(* The record store *)

\* { ...a, ...b } over the fields of a task; JSON carries no undefined, so
\* a field of b that reads Undefined is a key b does not have
Spread(a, b) ==
    [id          |-> IF b.id = Undefined THEN a.id ELSE b.id,
     title       |-> IF b.title = Undefined THEN a.title ELSE b.title,
     description |-> IF b.description = Undefined THEN a.description ELSE b.description,
     completed   |-> IF b.completed = Undefined THEN a.completed ELSE b.completed,
     priority    |-> IF b.priority = Undefined THEN a.priority ELSE b.priority,
     createdAt   |-> IF b.createdAt = Undefined THEN a.createdAt ELSE b.createdAt,
     updatedAt   |-> IF b.updatedAt = Undefined THEN a.updatedAt ELSE b.updatedAt]

\* tasks.findIndex(task => task.id === id); 0 stands for -1
FindIndex(ts, id) ==
    IF \E i \in 1..Len(ts) : ts[i].id = id
    THEN CHOOSE i \in 1..Len(ts) :
            ts[i].id = id /\ \A j \in 1..(i - 1) : ts[j].id # id
    ELSE 0

\* the task createTask pushes, with the uuid and the two clock readings
createTask(taskData, uuid, created, updated) ==
    [id          |-> uuid,
     title       |-> Str(Trim(taskData.title.s)),
     description |-> IF Truthy(taskData.description) THEN taskData.description ELSE Str(<<>>),
     completed   |-> IF Truthy(taskData.completed) THEN taskData.completed ELSE Bool(FALSE),
     priority    |-> IF Truthy(taskData.priority) THEN taskData.priority ELSE Str(S_medium),
     createdAt   |-> Iso(created),
     updatedAt   |-> Iso(updated)]

\* a replacing update: the body alone with the new updatedAt
updateTaskReplacing(old, updateData, clock) ==
    [updateData EXCEPT !.updatedAt = Iso(clock)]

\* the task updateTask stores at taskIndex
updateTask(old, updateData, clock) ==
    [Spread(old, updateData) EXCEPT !.updatedAt = Iso(clock)]

\* tasks.splice(taskIndex, 1)
Splice(ts, i) == SubSeq(ts, 1, i - 1) \o SubSeq(ts, i + 1, Len(ts))

-----------------------------------------------------------------------------------------------------------------------------------------------------
(* The query pipeline of GET /tasks *)

\* a[sortBy]: an own field of the task, undefined for any other name
Property(task, name) ==
    CASE name = S_id          -> task.id
      [] name = S_title       -> task.title
      [] name = S_description -> task.description
      [] name = S_completed   -> task.completed
      [] name = S_priority    -> task.priority
      [] name = S_createdAt   -> task.createdAt
      [] name = S_updatedAt   -> task.updatedAt
      [] OTHER                -> Undefined

IsDigit(c, radix) ==
    \/ c \in 48..57 /\ c - 48 < radix
    \/ c \in 97..122 /\ c - 87 < radix
    \/ c \in 65..90 /\ c - 55 < radix

DigitValue(c) ==
    CASE c \in 48..57 -> c - 48
      [] c \in 97..122 -> c - 87
      [] OTHER -> c - 55

RECURSIVE DigitPrefix(_, _)
DigitPrefix(cs, radix) ==
    IF cs # <<>> /\ IsDigit(Head(cs), radix)
    THEN <<Head(cs)>> \o DigitPrefix(Tail(cs), radix)
    ELSE <<>>

RECURSIVE DigitsValue(_, _)
DigitsValue(ds, radix) ==
    IF ds = <<>> THEN 0
    ELSE DigitsValue(SubSeq(ds, 1, Len(ds) - 1), radix) * radix
            + DigitValue(ds[Len(ds)])

\* parseInt(v) for a query-string value; an absent parameter is undefined,
\* which parseInt reads as the text "undefined"
ParseInt(v) ==
    IF v.t # "string" THEN NaN
    ELSE LET cs     == TrimStart(v.s)
             signed == cs # <<>> /\ Head(cs) \in {43, 45}
             neg    == cs # <<>> /\ Head(cs) = 45
             rest   == IF signed THEN Tail(cs) ELSE cs
             hex    == Len(rest) >= 2 /\ rest[1] = 48 /\ rest[2] \in {88, 120}
             radix  == IF hex THEN 16 ELSE 10
             digits == DigitPrefix(IF hex THEN SubSeq(rest, 3, Len(rest)) ELSE rest, radix)
         IN  IF digits = <<>> THEN NaN
             ELSE Num((IF neg THEN -1 ELSE 1) * DigitsValue(digits, radix))

\* Number(v) on the values a task field can hold
ToNumber(v) ==
    CASE v.t \in {"number", "boolean"} -> Num(v.n)
      [] v.t = "null" -> Num(0)
      [] v.t = "Infinity" -> Infinity
      [] v.t = "string" ->
            LET cs     == Trim(v.s)
                signed == cs # <<>> /\ Head(cs) \in {43, 45}
                rest   == IF signed THEN Tail(cs) ELSE cs
            IN  IF cs = <<>> THEN Num(0)
                ELSE IF rest # <<>> /\ DigitPrefix(rest, 10) = rest
                THEN Num((IF Head(cs) = 45 THEN -1 ELSE 1) * DigitsValue(rest, 10))
                ELSE NaN
      [] OTHER -> NaN

RECURSIVE LexLess(_, _)
LexLess(a, b) ==
    IF b = <<>> THEN FALSE
    ELSE IF a = <<>> THEN TRUE
    ELSE IF Head(a) # Head(b) THEN Head(a) < Head(b)
    ELSE LexLess(Tail(a), Tail(b))

\* x < y
LessThan(x, y) ==
    IF x.t = "string" /\ y.t = "string" THEN LexLess(x.s, y.s)
    ELSE LET nx == ToNumber(x)
             ny == ToNumber(y)
         IN  /\ nx.t # "NaN"
             /\ ny.t # "NaN"
             /\ nx.t = "number"
             /\ (ny.t = "Infinity" \/ nx.n < ny.n)

\* a comparator that never answers 0: what is not less is greater
CompareUntied(a, b, sortBy, sortOrder) ==
    IF LessThan(Property(a, sortBy), Property(b, sortBy)) THEN -1 * sortOrder
    ELSE 1 * sortOrder

\* the comparator handed to filteredTasks.sort
Compare(a, b, sortBy, sortOrder) ==
    IF LessThan(Property(a, sortBy), Property(b, sortBy)) THEN -1 * sortOrder
    ELSE IF LessThan(Property(b, sortBy), Property(a, sortBy)) THEN 1 * sortOrder
    ELSE 0

\* Array.prototype.sort is stable: an element goes behind every element it
\* does not compare less than.  The pipeline works on positions in `tasks`,
\* the object references the JavaScript arrays hold.
RECURSIVE InsertSorted(_, _, _, _, _)
InsertSorted(ts, out, x, sortBy, sortOrder) ==
    IF out = <<>> THEN <<x>>
    ELSE LET last == out[Len(out)] IN
         IF Compare(ts[x], ts[last], sortBy, sortOrder) < 0
         THEN Append(InsertSorted(ts, SubSeq(out, 1, Len(out) - 1), x, sortBy, sortOrder), last)
         ELSE Append(out, x)

RECURSIVE SortFrom(_, _, _, _, _)
SortFrom(ts, out, todo, sortBy, sortOrder) ==
    IF todo = <<>> THEN out
    ELSE SortFrom(ts, InsertSorted(ts, out, Head(todo), sortBy, sortOrder),
                  Tail(todo), sortBy, sortOrder)

Sort(ts, idx, sortBy, sortOrder) == SortFrom(ts, <<>>, idx, sortBy, sortOrder)

\* a completion filter that reads the parameter by its truthiness
FilterCompletedTruthy(ts, idx, q) ==
    IF q.completed # Undefined
    THEN LET completed == Bool(Truthy(q.completed)) IN
         SelectSeq(idx, LAMBDA i : ts[i].completed = completed)
    ELSE idx

\* filter by completion status
FilterCompleted(ts, idx, q) ==
    IF q.completed # Undefined
    THEN LET completed == Bool(q.completed = Str(S_true)) IN
         SelectSeq(idx, LAMBDA i : ts[i].completed = completed)
    ELSE idx

\* filter by priority
FilterPriority(ts, idx, q) ==
    IF Truthy(q.priority)
    THEN SelectSeq(idx, LAMBDA i : ts[i].priority = q.priority)
    ELSE idx

\* the search predicate raises a TypeError when it calls toLowerCase on a
\* field that is not a string; `||` reads the description only when the
\* title does not contain the term
SearchRaises(task, searchTerm) ==
    \/ task.title.t # "string"
    \/ /\ ~Includes(ToLowerCase(task.title.s), searchTerm)
       /\ task.description.t # "string"

SearchMatches(task, searchTerm) ==
    \/ Includes(ToLowerCase(task.title.s), searchTerm)
    \/ Includes(ToLowerCase(task.description.s), searchTerm)

FilterSearch(ts, idx, q) ==
    IF Truthy(q.search)
    THEN SelectSeq(idx, LAMBDA i : SearchMatches(ts[i], ToLowerCase(q.search.s)))
    ELSE idx

\* the three filters, in the handler's order
Filtered(ts, q) ==
    FilterSearch(ts, FilterPriority(ts, FilterCompleted(ts, [i \in 1..Len(ts) |-> i], q), q), q)

\* the try block is left for the catch block
Raises(ts, q) ==
    /\ Truthy(q.search)
    /\ LET idx == FilterPriority(ts, FilterCompleted(ts, [i \in 1..Len(ts) |-> i], q), q) IN
       \E k \in 1..Len(idx) : SearchRaises(ts[idx[k]], ToLowerCase(q.search.s))

\* a sort whose order is descending unless sortOrder is given and is not
\* 'desc'
FilteredSortedNewestFirst(ts, q) ==
    Sort(ts, Filtered(ts, q),
         IF Truthy(q.sortBy) THEN q.sortBy.s ELSE S_createdAt,
         IF q.sortOrder = Undefined \/ q.sortOrder = Str(S_desc) THEN -1 ELSE 1)

\* filteredTasks after the sort
FilteredSorted(ts, q) ==
    Sort(ts, Filtered(ts, q),
         IF Truthy(q.sortBy) THEN q.sortBy.s ELSE S_createdAt,
         IF q.sortOrder = Str(S_desc) THEN -1 ELSE 1)

DefaultPage == 1
DefaultLimit == 10

\* PageOf with the page clamped to the positive range
PageOfClamped(q) ==
    LET pageParam == ParseInt(q.page) IN
    IF q.page # Undefined /\ pageParam.t # "NaN" /\ pageParam.n >= 1
    THEN pageParam.n
    ELSE DefaultPage

PageOf(q) ==
    LET pageParam == ParseInt(q.page) IN
    IF q.page # Undefined /\ pageParam.t # "NaN" THEN pageParam.n ELSE DefaultPage

LimitOf(q) ==
    LET limitParam == ParseInt(q.limit) IN
    IF q.limit # Undefined /\ limitParam.t # "NaN" THEN limitParam.n ELSE DefaultLimit

\* StartIndex counting pages from zero
StartIndexFromZero(page, limit) == page * limit

StartIndex(page, limit) == (page - 1) * limit

EndIndex(page, limit) == StartIndex(page, limit) + limit

Min(a, b) == IF a < b THEN a ELSE b
Max(a, b) == IF a > b THEN a ELSE b

\* Array.prototype.slice(start, end)
Slice(seq, start, end) ==
    LET len == Len(seq)
        k   == IF start < 0 THEN Max(len + start, 0) ELSE Min(start, len)
        fin == IF end < 0 THEN Max(len + end, 0) ELSE Min(end, len)
    IN  SubSeq(seq, k + 1, fin)

\* TotalPages rounding down
TotalPagesFloor(total, limit) ==
    IF limit = 0 THEN (IF total = 0 THEN NaN ELSE Infinity)
    ELSE IF limit > 0 THEN Num(total \div limit)
    ELSE Num(-((-total) \div limit))

\* Math.ceil(total / limit)
TotalPages(total, limit) ==
    IF limit = 0 THEN (IF total = 0 THEN NaN ELSE Infinity)
    ELSE IF limit > 0 THEN Num(-((-total) \div limit))
    ELSE Num(-(total \div (-limit)))

\* JSON.stringify of a number, as res.json sends it: NaN and Infinity
\* are written as null
Json(v) == IF v.t \in {"NaN", "Infinity"} THEN Null ELSE v

-----------------------------------------------------------------------------
(* Responses *)

NoTask == [id |-> Undefined, title |-> Undefined, description |-> Undefined,
           completed |-> Undefined, priority |-> Undefined,
           createdAt |-> Undefined, updatedAt |-> Undefined]

NoQuery == [completed |-> Undefined, priority |-> Undefined, search |-> Undefined,
            sortBy |-> Undefined, sortOrder |-> Undefined,
            page |-> Undefined, limit |-> Undefined]

NoPagination == [page |-> Undefined, limit |-> Undefined,
                 total |-> Undefined, totalPages |-> Undefined]

\* resp is the last request with its response; items are the positions in
\* `tasks` of the tasks a listing returns
Reply(op, status, details, task) ==
    [op |-> op, status |-> status, details |-> details, task |-> task,
     query |-> NoQuery, items |-> <<>>, pagination |-> NoPagination]

\* the response of GET /tasks
GetTasksReply(ts, q) ==
    IF Raises(ts, q)
    THEN [Reply("GET", 500, <<>>, NoTask) EXCEPT !.query = q]
    ELSE LET filteredTasks == FilteredSorted(ts, q)
             page  == PageOf(q)
             limit == LimitOf(q)
         IN  [Reply("GET", 200, <<>>, NoTask) EXCEPT
                 !.query = q,
                 !.items = Slice(filteredTasks, StartIndex(page, limit), EndIndex(page, limit)),
                 !.pagination =
                     [page       |-> Json(Num(page)),
                      limit      |-> Json(Num(limit)),
                      total      |-> Json(Num(Len(filteredTasks))),
                      totalPages |-> Json(TotalPages(Len(filteredTasks), limit))]]

\* the response of GET /tasks/:id: findTaskById returns the first task
\* with the id
GetTaskReply(ts, id) ==
    LET i == FindIndex(ts, id) IN
    IF i = 0
    THEN Reply("GETID", 404, <<>>, NoTask)
    ELSE Reply("GETID", 200, <<>>, ts[i])

-----------------------------------------------------------------------------
(* Requests *)

Body(title, description, completed, priority) ==
    [NoTask EXCEPT !.title = title, !.description = description,
                   !.completed = completed, !.priority = priority]

\* POST bodies: {title: " a "}; {title: "B", description: "b", completed:
\* true, priority: "high"}; {}; {title: "a", description: 7, completed:
\* "true", priority: "x"}; {title: " a ", priority: ""}
PostBodies ==
    { Body(Str(<<32, 97, 32>>), Undefined, Undefined, Undefined),
      Body(Str(<<32, 97, 32>>), Undefined, Undefined, Str(<<>>)),
      Body(Str(<<66>>), Str(<<98>>), Bool(TRUE), Str(S_high)),
      Body(Undefined, Undefined, Undefined, Undefined),
      Body(Str(<<97>>), Num(7), Str(S_true), Str(<<120>>)) }

\* PUT bodies: {completed: true}; {title: "", priority: "x"};
\* {id: "u1", title: " a ", description: null, createdAt: "T9"}
PutBodies ==
    { Body(Undefined, Undefined, Bool(TRUE), Undefined),
      Body(Str(<<>>), Undefined, Undefined, Str(<<120>>)),
      [NoTask EXCEPT !.id = Uuid(1), !.title = Str(<<32, 97, 32>>),
                     !.description = Null, !.createdAt = Iso(9)] }

\* req.params.id
IdParams == {Uuid(k) : k \in 1..MaxTasks}

Query(completed, priority, search, sortBy, sortOrder, page, limit) ==
    [completed |-> completed, priority |-> priority, search |-> search,
     sortBy |-> sortBy, sortOrder |-> sortOrder, page |-> page, limit |-> limit]

\* page: absent, "1", "2", "0", "-1", "abc", "5abc"
PageParams ==
    { Undefined, Str(<<49>>), Str(<<50>>), Str(<<48>>), Str(<<45, 49>>),
      Str(<<97, 98, 99>>), Str(<<53, 97, 98, 99>>) }

\* limit: absent, "1", "2", "0", "-2", "xyz"
LimitParams ==
    { Undefined, Str(<<49>>), Str(<<50>>), Str(<<48>>), Str(<<45, 50>>),
      Str(<<120, 121, 122>>) }

\* the (page, limit) pairs of the listings: each parameter over all its
\* values with the other absent, and small values of both together
PageLimitParams ==
    { pl \in PageParams \X LimitParams :
        \/ pl[1] = Undefined
        \/ pl[2] = Undefined
        \/ /\ pl[1] \in {Str(<<49>>), Str(<<50>>), Str(<<48>>), Str(<<45, 49>>)}
           /\ pl[2] \in {Str(<<49>>), Str(<<50>>), Str(<<48>>), Str(<<45, 50>>)} }

\* req.query: the filters (completed: absent, "true", "false", "f"; priority:
\* absent, "high"; search: absent, "B", "z", ""); the sorts (sortBy: absent,
\* "title", "description", "n"; sortOrder: absent, "desc", "DESC"); the pages over
\* the title order; limit=-1; the completed tasks sorted by "n"; and the
\* pages over a filtered, searched, descending listing
Queries ==
       { Query(c, p, Undefined, Undefined, Undefined, Undefined, Undefined) :
            c \in {Undefined, Str(S_true), Str(S_false), Str(<<102>>)},
            p \in {Undefined, Str(S_high)} }
    \cup
       { Query(c, Undefined, s, Undefined, Undefined, Undefined, Undefined) :
            c \in {Undefined, Str(S_true), Str(<<102>>)},
            s \in {Str(<<66>>), Str(<<122>>)} }
    \cup
       { Query(Undefined, Undefined, Str(<<>>), Undefined, Undefined, Undefined, Undefined) }
    \cup
       { Query(Undefined, Undefined, Undefined, by, order, Undefined, Undefined) :
            by \in {Undefined, Str(S_title), Str(S_description), Str(<<110>>)},
            order \in {Undefined, Str(S_desc), Str(<<68, 69, 83, 67>>)} }
    \cup
       { Query(Undefined, Undefined, Undefined, Str(S_title), Undefined, pl[1], pl[2]) :
            pl \in PageLimitParams }
    \cup
       { Query(Undefined, Undefined, Undefined, Undefined, Undefined, Undefined, Str(<<45, 49>>)) }
    \cup
       { Query(Str(S_true), Undefined, Undefined, Str(<<110>>), order, Undefined, Undefined) :
            order \in {Undefined, Str(S_desc)} }
    \cup
       { Query(Str(<<102>>), Undefined, Str(<<97>>), Str(S_title), Str(S_desc), page, limit) :
            page \in {Str(<<49>>), Str(<<50>>)},
            limit \in {Str(<<49>>), Str(<<50>>)} }

-----------------------------------------------------------------------------
(* The users API: values, validation and the statements on the table *)

\* Go strings are sequences of bytes; the model's are ASCII

\* unicode.IsSpace on an ASCII byte
IsSpace(c) == c \in {9, 10, 11, 12, 13, 32}

\* strings.TrimSpace
TrimSpace(cs) ==
    IF \A k \in 1..Len(cs) : IsSpace(cs[k]) THEN <<>>
    ELSE LET first == CHOOSE k \in 1..Len(cs) :
                         ~IsSpace(cs[k]) /\ \A j \in 1..(k - 1) : IsSpace(cs[j])
             last  == CHOOSE k \in 1..Len(cs) :
                         ~IsSpace(cs[k]) /\ \A j \in (k + 1)..Len(cs) : IsSpace(cs[j])
         IN  SubSeq(cs, first, last)

\* strings.Contains
Contains(cs, substr) ==
    \E k \in 0..(Len(cs) - Len(substr)) : SubSeq(cs, k + 1, k + Len(substr)) = substr

NameLimit == 100
AgeLimit == 150

ErrNameRequired  == "Name is required"
ErrNameLength    == "Name must be less than 100 characters"
ErrEmailRequired == "Email is required"
ErrEmailFormat   == "Invalid email format"
ErrAgeNegative   == "Age must be non-negative"
ErrAgeLimit      == "Age must be less than 150"

\* UserRequest
UserRequest(name, email, age) == [name |-> name, email |-> email, age |-> age]

isValidEmail(email) == Contains(email, <<64>>) /\ Contains(email, <<46>>)

\* a validateUser of four rules: no length rule for the name and no
\* required rule for the email
validateUserFourRules(user) ==
       (IF TrimSpace(user.name) = <<>> THEN <<ErrNameRequired>> ELSE <<>>)
    \o (IF ~isValidEmail(user.email) THEN <<ErrEmailFormat>> ELSE <<>>)
    \o (IF user.age < 0 THEN <<ErrAgeNegative>> ELSE <<>>)
    \o (IF user.age > AgeLimit THEN <<ErrAgeLimit>> ELSE <<>>)

validateUser(user) ==
       (IF TrimSpace(user.name) = <<>> THEN <<ErrNameRequired>> ELSE <<>>)
    \o (IF Len(user.name) > NameLimit THEN <<ErrNameLength>> ELSE <<>>)
    \o (IF TrimSpace(user.email) = <<>> THEN <<ErrEmailRequired>> ELSE <<>>)
    \o (IF ~isValidEmail(user.email) THEN <<ErrEmailFormat>> ELSE <<>>)
    \o (IF user.age < 0 THEN <<ErrAgeNegative>> ELSE <<>>)
    \o (IF user.age > AgeLimit THEN <<ErrAgeLimit>> ELSE <<>>)

\* a row of the table users
User(id, user, createdAt) ==
    [id |-> id, name |-> user.name, email |-> user.email, age |-> user.age,
     created_at |-> createdAt]

NoUser == [id |-> 0, name |-> <<>>, email |-> <<>>, age |-> 0, created_at |-> 0]

\* INSERT INTO users (name, email, age) with no constraint on email
InsertAnyEmail(table, user, id, createdAt) ==
    [failed |-> FALSE, rows |-> table \cup {User(id, user, createdAt)}]

\* INSERT INTO users (name, email, age): the statement fails on the UNIQUE
\* constraint of the column email and then changes nothing
Insert(table, user, id, createdAt) ==
    IF \E row \in table : row.email = user.email
    THEN [failed |-> TRUE, rows |-> table]
    ELSE [failed |-> FALSE, rows |-> table \cup {User(id, user, createdAt)}]

\* UPDATE users SET name, email, age WHERE id: `affected` is RowsAffected;
\* the statement fails when the new email is the email of another row
Update(table, user, id) ==
    IF \A row \in table : row.id # id
    THEN [failed |-> FALSE, affected |-> 0, rows |-> table]
    ELSE LET old == CHOOSE row \in table : row.id = id IN
         IF \E row \in table : row.id # id /\ row.email = user.email
         THEN [failed |-> TRUE, affected |-> 0, rows |-> table]
         ELSE [failed |-> FALSE, affected |-> 1,
               rows |-> (table \ {old}) \cup {User(id, user, old.created_at)}]

\* DELETE FROM users WHERE id
Delete(table, id) ==
    [affected |-> Cardinality({row \in table : row.id = id}),
     rows |-> {row \in table : row.id # id}]

\* SELECT ... FROM users WHERE id: the rows found, none or one
SelectById(table, id) == {row \in table : row.id = id}

\* the response written by a handler of the users API
UserReply(op, status, error, details, user) ==
    [op |-> op, status |-> status, error |-> error, details |-> details, user |-> user,
     list |-> <<>>, count |-> 0]

\* SELECT ... FROM users ORDER BY created_at DESC: every order of the rows
\* in which created_at does not increase; SQL leaves the order of rows
\* with equal created_at open
SelectOrdered(table) ==
    { list \in [1..Cardinality(table) -> table] :
        /\ \A i, j \in 1..Cardinality(table) : i # j => list[i] # list[j]
        /\ \A i, j \in 1..Cardinality(table) :
              i < j => list[i].created_at >= list[j].created_at }

\* a handler between its statement and its SELECT
Call(op, id) == [op |-> op, id |-> id]

\* a JSON request body: `given` are the keys it has
UserBody(given, name, email, age) ==
    [given |-> given, name |-> name, email |-> email, age |-> age]

\* json.NewDecoder(r.Body).Decode(&userReq): a field whose key the body
\* lacks keeps the zero value of its type
Decode(body) ==
    UserRequest(IF "name" \in body.given THEN body.name ELSE <<>>,
                IF "email" \in body.given THEN body.email ELSE <<>>,
                IF "age" \in body.given THEN body.age ELSE 0)

\* request bodies: {name: "A", email: "a@b.c", age: 30}; {name: "B", email:
\* "x@y.z"}; {name: "B", email: "a@b.c", age: 150}; {name: " ", age: -1};
\* {name: "A", email: "ab", age: 151}
UserBodies ==
    { UserBody({"name", "email", "age"}, <<65>>, <<97, 64, 98, 46, 99>>, 30),
      UserBody({"name", "email"}, <<66>>, <<120, 64, 121, 46, 122>>, 0),
      UserBody({"name", "email", "age"}, <<66>>, <<97, 64, 98, 46, 99>>, AgeLimit),
      UserBody({"name", "age"}, <<32>>, <<>>, -1),
      UserBody({"name", "email", "age"}, <<65>>, <<97, 98>>, AgeLimit + 1) }

\* the decoded requests
UserRequests == {Decode(body) : body \in UserBodies}

\* mux.Vars(r)["id"] read by strconv.Atoi
UserIdParams == 1..MaxUsers

-----------------------------------------------------------------------------
(* Handlers *)

Init ==
    /\ tasks = <<>>
    /\ nextId = 1
    /\ now = 0
    /\ resp = Reply("none", 0, <<>>, NoTask)
    /\ users = {}
    /\ lastId = 0
    /\ pending = EmptyBag
    /\ reply = UserReply("none", 0, "", <<>>, NoUser)

\* POST /tasks; d1 and d2 are the clock ticks before the two readings of
\* the clock in createTask
PostTasks(body, d1, d2) ==
    /\ UNCHANGED usersVars
    /\ LET validationErrors == validateTask(body) IN
       IF Len(validationErrors) > 0
       THEN /\ resp' = Reply("POST", 400, validationErrors, NoTask)
            /\ UNCHANGED <<tasks, nextId, now>>
       ELSE /\ nextId <= MaxTasks
            /\ now + d1 + d2 <= MaxClock
            /\ LET task == createTask(body, Uuid(nextId), now + d1, now + d1 + d2) IN
               /\ tasks' = Append(tasks, task)
               /\ resp' = Reply("POST", 201, <<>>, task)
            /\ nextId' = nextId + 1
            /\ now' = now + d1 + d2

\* a PUT /tasks/:id that stores the merged task before it validates it
PutTaskStoringFirst(id, body, d) ==
    /\ UNCHANGED usersVars
    /\ LET i == FindIndex(tasks, id) IN
       IF i = 0
       THEN /\ resp' = Reply("PUT", 404, <<>>, NoTask)
            /\ UNCHANGED <<tasks, nextId, now>>
       ELSE LET updatedTask == updateTask(tasks[i], body, now + d)
                validationErrors == validateTask(updatedTask)
            IN  /\ now + d <= MaxClock
                /\ tasks' = [tasks EXCEPT ![i] = updatedTask]
                /\ resp' = IF Len(validationErrors) > 0
                           THEN Reply("PUT", 400, validationErrors, NoTask)
                           ELSE Reply("PUT", 200, <<>>, updatedTask)
                /\ now' = now + d
                /\ UNCHANGED nextId

\* PUT /tasks/:id; d is the clock ticks before updateTask reads the clock
PutTask(id, body, d) ==
    /\ UNCHANGED usersVars
    /\ LET i == FindIndex(tasks, id) IN
       IF i = 0
       THEN /\ resp' = Reply("PUT", 404, <<>>, NoTask)
            /\ UNCHANGED <<tasks, nextId, now>>
       ELSE LET validationErrors == validateTask(Spread(tasks[i], body)) IN
            IF Len(validationErrors) > 0
            THEN /\ resp' = Reply("PUT", 400, validationErrors, NoTask)
                 /\ UNCHANGED <<tasks, nextId, now>>
            ELSE /\ now + d <= MaxClock
                 /\ LET updatedTask == updateTask(tasks[i], body, now + d) IN
                    /\ tasks' = [tasks EXCEPT ![i] = updatedTask]
                    /\ resp' = Reply("PUT", 200, <<>>, updatedTask)
                 /\ now' = now + d
                 /\ UNCHANGED nextId

\* DELETE /tasks/:id
DeleteTask(id) ==
    /\ UNCHANGED usersVars
    /\ LET i == FindIndex(tasks, id) IN
       /\ IF i = 0
          THEN /\ resp' = Reply("DELETE", 404, <<>>, NoTask)
               /\ UNCHANGED tasks
          ELSE /\ tasks' = Splice(tasks, i)
               /\ resp' = Reply("DELETE", 204, <<>>, NoTask)
       /\ UNCHANGED <<nextId, now>>

\* DELETE /tasks
DeleteAllTasks ==
    /\ tasks' = <<>>
    /\ resp' = Reply("DELETEALL", 204, <<>>, NoTask)
    /\ UNCHANGED <<nextId, now>>
    /\ UNCHANGED usersVars

\* a GET /tasks that sorts the collection itself, not a copy of it
GetTasksSortingInPlace(q) ==
    /\ LET sorted == FilteredSorted(tasks, [q EXCEPT !.completed = Undefined,
                                                     !.priority = Undefined,
                                                     !.search = Undefined])
       IN  tasks' = [k \in 1..Len(tasks) |-> tasks[sorted[k]]]
    /\ resp' = GetTasksReply(tasks', q)
    /\ UNCHANGED <<nextId, now>>
    /\ UNCHANGED usersVars

\* GET /tasks
GetTasks(q) ==
    /\ resp' = GetTasksReply(tasks, q)
    /\ UNCHANGED <<tasks, nextId, now>>
    /\ UNCHANGED usersVars

\* GET /tasks/:id
GetTask(id) ==
    /\ resp' = GetTaskReply(tasks, id)
    /\ UNCHANGED <<tasks, nextId, now>>
    /\ UNCHANGED usersVars

\* a millisecond passes between two requests
Tick ==
    /\ now < MaxClock
    /\ now' = now + 1
    /\ UNCHANGED <<tasks, nextId, resp>>
    /\ UNCHANGED usersVars

\* the record store under requests that arrive as the clock advances; the
\* clock may also advance between the two readings of createTask
Next ==
    \/ \E body \in PostBodies, d2 \in 0..1 : PostTasks(body, 0, d2)
    \/ \E id \in IdParams, body \in PutBodies : PutTask(id, body, 0)
    \/ \E id \in IdParams : DeleteTask(id)
    \/ DeleteAllTasks
    \/ Tick

Spec == Init /\ [][Next]_vars

\* the same requests arriving within one reading of the clock, with
\* listings between them
QueryNext ==
    \/ \E body \in PostBodies : PostTasks(body, 0, 0)
    \/ \E id \in IdParams, body \in PutBodies : PutTask(id, body, 0)
    \/ \E id \in IdParams : DeleteTask(id)
    \/ DeleteAllTasks
    \/ \E q \in Queries : GetTasks(q)
    \/ \E id \in IdParams : GetTask(id)

QuerySpec == Init /\ [][QueryNext]_vars

\* the tasks that can stand at position k of the collection with the
\* description "b", "" or null: created by POST /tasks {title: "a",
\* description: "b"} or POST /tasks {title: "a"}, the latter then updated by
\* PUT /tasks/:id {description: null}
StoredTasks(k) ==
    LET plain == createTask(Body(Str(<<97>>), Undefined, Undefined, Undefined), Uuid(k), 0, 0)
    IN  { createTask(Body(Str(<<97>>), Str(<<98>>), Undefined, Undefined), Uuid(k), 0, 0),
          plain,
          updateTask(plain, Body(Undefined, Null, Undefined, Undefined), 0) }

\* the collection after up to MaxSorted such requests
SortInit ==
    /\ \E n \in 0..MaxSorted :
          /\ tasks \in [1..n -> UNION {StoredTasks(k) : k \in 1..n}]
          /\ \A k \in 1..n : tasks[k] \in StoredTasks(k)
          /\ nextId = n + 1
    /\ now = 0
    /\ resp = Reply("none", 0, <<>>, NoTask)
    /\ users = {}
    /\ lastId = 0
    /\ pending = EmptyBag
    /\ reply = UserReply("none", 0, "", <<>>, NoUser)

\* sortBy: "description", "title"; sortOrder: absent, "desc"
SortQueries ==
    { Query(Undefined, Undefined, Undefined, by, order, Undefined, Undefined) :
        by \in {Str(S_description), Str(S_title)},
        order \in {Undefined, Str(S_desc)} }

\* sorted listings of such a collection
SortNext == \E q \in SortQueries : GetTasks(q)

SortSpec == SortInit /\ [][SortNext]_vars

\* validateTask called on its own, as each unit test calls it once; resp
\* holds the candidate and the messages returned
ValidateTask(candidate) ==
    /\ resp.op = "none"
    /\ resp' = Reply("validateTask", 0, validateTask(candidate), candidate)
    /\ UNCHANGED <<tasks, nextId, now>>
    /\ UNCHANGED usersVars

\* candidates: every combination of
\*   title: absent, null, "", " ", "a", 123, 200 and 201 times "a", 201 spaces
\*   description: absent, null, 0, false, "b", 7, 1000 and 1001 times "b"
\*   completed: absent, null, true, false, "true"
\*   priority: absent, null, "", "low", "medium", "high", "x"
Candidates ==
    { Body(title, description, completed, priority) :
        title \in { Undefined, Null, Str(<<>>), Str(<<32>>), Str(<<97>>), Num(123),
                    Str(Repeat(97, TitleLimit)), Str(Repeat(97, TitleLimit + 1)),
                    Str(Repeat(32, TitleLimit + 1)) },
        description \in { Undefined, Null, Num(0), Bool(FALSE), Str(<<98>>), Num(7),
                          Str(Repeat(98, DescriptionLimit)),
                          Str(Repeat(98, DescriptionLimit + 1)) },
        completed \in { Undefined, Null, Bool(TRUE), Bool(FALSE), Str(S_true) },
        priority \in { Undefined, Null, Str(<<>>), Str(<<120>>) } \cup Priorities }

ValidateNext == \E candidate \in Candidates : ValidateTask(candidate)

ValidateSpec == Init /\ [][ValidateNext]_vars

\* the handlers of the users API leave the task API alone
tasksVars == <<tasks, nextId, now, resp>>

\* createUserHandler up to its INSERT: decode, validate, db.Exec
CreateUserExec(userReq) ==
    LET errors == validateUser(userReq)
        result == Insert(users, userReq, lastId + 1, now)
    IN  /\ IF Len(errors) > 0
           THEN /\ reply' = UserReply("POST", 400, "Validation failed", errors, NoUser)
                /\ UNCHANGED <<users, lastId, pending>>
           ELSE IF result.failed
           THEN /\ reply' = UserReply("POST", 409, "Email already exists", <<>>, NoUser)
                /\ UNCHANGED <<users, lastId, pending>>
           ELSE /\ lastId < MaxUsers
                /\ BagCardinality(pending) < MaxCalls
                /\ users' = result.rows
                /\ lastId' = lastId + 1
                /\ pending' = pending (+) SetToBag({Call("POST", lastId + 1)})
                /\ UNCHANGED reply
        /\ UNCHANGED tasksVars

\* createUserHandler from LastInsertId on: the SELECT of the created user
CreateUserFetch(userID) ==
    /\ BagIn(Call("POST", userID), pending)
    /\ pending' = pending (-) SetToBag({Call("POST", userID)})
    /\ LET found == SelectById(users, userID) IN
       reply' = IF found = {}
                THEN UserReply("POST", 500, "Failed to fetch created user", <<>>, NoUser)
                ELSE UserReply("POST", 201, "", <<>>, CHOOSE row \in found : TRUE)
    /\ UNCHANGED <<users, lastId>>
    /\ UNCHANGED tasksVars

\* updateUserHandler up to RowsAffected: decode, validate, db.Exec
UpdateUserExec(userID, userReq) ==
    LET errors == validateUser(userReq)
        result == Update(users, userReq, userID)
    IN  /\ IF Len(errors) > 0
           THEN /\ reply' = UserReply("PUT", 400, "Validation failed", errors, NoUser)
                /\ UNCHANGED <<users, pending>>
           ELSE IF result.failed
           THEN /\ reply' = UserReply("PUT", 409, "Email already exists", <<>>, NoUser)
                /\ UNCHANGED <<users, pending>>
           ELSE IF result.affected = 0
           THEN /\ reply' = UserReply("PUT", 404, "User not found", <<>>, NoUser)
                /\ UNCHANGED <<users, pending>>
           ELSE /\ BagCardinality(pending) < MaxCalls
                /\ users' = result.rows
                /\ pending' = pending (+) SetToBag({Call("PUT", userID)})
                /\ UNCHANGED reply
        /\ UNCHANGED lastId
        /\ UNCHANGED tasksVars

\* updateUserHandler after RowsAffected: the SELECT of the updated user
UpdateUserFetch(userID) ==
    /\ BagIn(Call("PUT", userID), pending)
    /\ pending' = pending (-) SetToBag({Call("PUT", userID)})
    /\ LET found == SelectById(users, userID) IN
       reply' = IF found = {}
                THEN UserReply("PUT", 500, "Failed to fetch updated user", <<>>, NoUser)
                ELSE UserReply("PUT", 200, "", <<>>, CHOOSE row \in found : TRUE)
    /\ UNCHANGED <<users, lastId>>
    /\ UNCHANGED tasksVars

\* deleteUserHandler
DeleteUser(userID) ==
    LET result == Delete(users, userID) IN
    /\ users' = result.rows
    /\ reply' = IF result.affected = 0
                THEN UserReply("DELETE", 404, "User not found", <<>>, NoUser)
                ELSE UserReply("DELETE", 200, "User deleted successfully", <<>>, NoUser)
    /\ UNCHANGED <<lastId, pending>>
    /\ UNCHANGED tasksVars

\* the users API under requests whose handlers interleave at their
\* statements
UserNext ==
    \/ \E userReq \in UserRequests : CreateUserExec(userReq)
    \/ \E userID \in UserIdParams : CreateUserFetch(userID)
    \/ \E userID \in UserIdParams, userReq \in UserRequests : UpdateUserExec(userID, userReq)
    \/ \E userID \in UserIdParams : UpdateUserFetch(userID)
    \/ \E userID \in UserIdParams : DeleteUser(userID)

UserSpec == Init /\ [][UserNext]_vars

\* getUsersHandler; rows is the order in which the query yields the rows
GetUsers(rows) ==
    /\ rows \in SelectOrdered(users)
    /\ reply' = [UserReply("GETUSERS", 200, "", <<>>, NoUser) EXCEPT
                    !.list = rows, !.count = Len(rows)]
    /\ UNCHANGED <<users, lastId, pending>>
    /\ UNCHANGED tasksVars

\* the users API with listings, while CURRENT_TIMESTAMP advances; a tick of
\* the clock is here one second
UserListNext ==
    \/ UserNext
    \/ Tick
    \/ \E rows \in SelectOrdered(users) : GetUsers(rows)

UserListSpec == Init /\ [][UserListNext]_vars

\* validateUser called on its own, once; reply holds the candidate and the
\* messages returned
ValidateUser(candidate) ==
    /\ reply.op = "none"
    /\ reply' = UserReply("validateUser", 0, "", validateUser(candidate),
                          User(0, candidate, 0))
    /\ UNCHANGED <<users, lastId, pending>>
    /\ UNCHANGED tasksVars

\* candidates: every combination of
\*   name: "", " ", "A", " A ", 100 and 101 times "A", 101 spaces
\*   email: "", " ", "ab", "a@b", "a.b", "a@b.c", ".@"
\*   age: -1, 0, 30, 150, 151
UserCandidates ==
    { UserRequest(name, email, age) :
        name \in { <<>>, <<32>>, <<65>>, <<32, 65, 32>>, Repeat(65, NameLimit),
                   Repeat(65, NameLimit + 1), Repeat(32, NameLimit + 1) },
        email \in { <<>>, <<32>>, <<97, 98>>, <<97, 64, 98>>, <<97, 46, 98>>,
                    <<97, 64, 98, 46, 99>>, <<46, 64>> },
        age \in { -1, 0, 30, AgeLimit, AgeLimit + 1 } }

ValidateUserNext == \E candidate \in UserCandidates : ValidateUser(candidate)

ValidateUserSpec == Init /\ [][ValidateUserNext]_vars

-----------------------------------------------------------------------------
(* Properties of the record store *)

Positions == 1..Len(tasks)

\* C1: after any sequence of POST, PUT and DELETE requests no two tasks of
\* the collection have the same id.
C1_UniqueIds ==
    \A i, j \in Positions : i # j => tasks[i].id # tasks[j].id

\* C2: a successful PUT /tasks/:id leaves the id and the createdAt of every
\* task as they were, so both stay what the POST assigned.
C2_SystemFieldsKept ==
    [][(resp'.op = "PUT" /\ resp'.status = 200) =>
          \A i \in Positions :
              /\ tasks'[i].id = tasks[i].id
              /\ tasks'[i].createdAt = tasks[i].createdAt]_vars

\* C3: every stored task has a boolean completed, a priority among low,
\* medium and high, and a description that is a string of at most 1000
\* characters.
C3_FieldDomains ==
    \A i \in Positions :
        /\ tasks[i].completed \in {Bool(TRUE), Bool(FALSE)}
        /\ tasks[i].priority \in Priorities
        /\ tasks[i].description.t = "string"
        /\ Len(tasks[i].description.s) <= DescriptionLimit

\* C10: every stored title is a non-empty string of at most 200 characters
\* with no leading or trailing whitespace.
C10_TitleTrimmed ==
    \A i \in Positions :
        /\ tasks[i].title.t = "string"
        /\ Len(tasks[i].title.s) \in 1..TitleLimit
        /\ Trim(tasks[i].title.s) = tasks[i].title.s

-----------------------------------------------------------------------------
(* Properties of GET /tasks *)

Listed == resp.op = "GET" /\ resp.status = 200

\* C4: GET /tasks answers 200 for every recognised query and every
\* reachable collection; it never ends in its 500 path.
C4_ListNeverFails ==
    resp.op = "GET" => resp.status = 200

\* the text of a positive integer, as a client writes it into ?page=
RECURSIVE Decimal(_)
Decimal(k) ==
    IF k < 10 THEN <<48 + k>> ELSE Append(Decimal(k \div 10), 48 + (k % 10))

RECURSIVE Concat(_)
Concat(seqs) ==
    IF seqs = <<>> THEN <<>> ELSE Head(seqs) \o Concat(Tail(seqs))

\* the tasks GET /tasks returns for page p of the last listing's query,
\* the collection being as that listing saw it
PageItems(p) ==
    GetTasksReply(tasks, [resp.query EXCEPT !.page = Str(Decimal(p))]).items

\* C5: with limit L > 0 and N matching tasks, the pages 1..ceil(N/L) each
\* hold at most L tasks, are pairwise disjoint, and in page order make up
\* exactly the filtered and sorted sequence.
C5_PaginationLaw ==
    (Listed /\ resp.pagination.limit.n > 0) =>
        LET L     == resp.pagination.limit.n
            full  == FilteredSorted(tasks, resp.query)
            N     == Len(full)
            last  == CHOOSE k \in 0..N : k * L >= N /\ (k - 1) * L < N
            pages == [p \in 1..last |-> PageItems(p)]
        IN  /\ \A p \in 1..last : Len(pages[p]) <= L
            /\ \A p1, p2 \in 1..last :
                  p1 # p2 =>
                     {pages[p1][k] : k \in 1..Len(pages[p1])}
                        \cap {pages[p2][k] : k \in 1..Len(pages[p2])} = {}
            /\ Concat(pages) = full
            /\ \A k1, k2 \in 1..N : k1 # k2 => full[k1] # full[k2]
            /\ (resp.pagination.page.n \in 1..last =>
                   resp.items = pages[resp.pagination.page.n])

\* two pages of one task each, the second one listed, over a filtered,
\* searched and descending listing
C5_Witness ==
    /\ Listed
    /\ resp.query.completed # Undefined
    /\ resp.query.search # Undefined
    /\ resp.query.sortOrder = Str(S_desc)
    /\ resp.pagination.limit = Num(1)
    /\ resp.pagination.page = Num(2)
    /\ resp.pagination.total = Num(2)
    /\ Len(resp.items) = 1

\* C6: for limit > 0, total is the number of tasks left by the completed,
\* priority and search filters before slicing, and totalPages is
\* ceil(total/limit): the least number of pages of `limit` tasks that hold
\* `total` tasks; an empty collection gives 0 and 0.
C6_TotalAndPages ==
    (Listed /\ resp.pagination.limit.n > 0) =>
        LET L     == resp.pagination.limit.n
            total == Len(Filtered(tasks, resp.query))
            pages == resp.pagination.totalPages
        IN  /\ resp.pagination.total = Num(total)
            /\ pages.t = "number"
            /\ pages.n * L >= total
            /\ (pages.n - 1) * L < total
            /\ (tasks = <<>> => resp.pagination.total = Num(0) /\ pages = Num(0))

\* a filter leaves one of two tasks, and one page of ten holds it
C6_Witness ==
    /\ Listed
    /\ Len(tasks) = 2
    /\ resp.pagination.limit = Num(DefaultLimit)
    /\ resp.pagination.total = Num(1)
    /\ resp.pagination.totalPages = Num(1)

\* C7: GET /tasks with limit <= 0 returns 200 and a totalPages that is a
\* finite non-negative number, never the raw quotient by zero or by a
\* negative limit.
C7_TotalPagesDefined ==
    (resp.op = "GET" /\ LimitOf(resp.query) <= 0) =>
        /\ resp.status = 200
        /\ resp.pagination.totalPages.t = "number"
        /\ resp.pagination.totalPages.n >= 0

\* the text is an integer: an optional sign and decimal digits only
IsIntegerText(cs) ==
    LET digits == IF cs # <<>> /\ cs[1] \in {43, 45} THEN Tail(cs) ELSE cs IN
    /\ digits # <<>>
    /\ \A k \in 1..Len(digits) : digits[k] \in 48..57

\* the integer at the start of the text after leading whitespace: the
\* longest run of an optional sign and decimal digits, if it has a digit
LeadingInteger(cs) ==
    LET text   == cs
        first  == IF \E k \in 1..Len(text) : ~IsWhiteSpace(text[k])
                  THEN CHOOSE k \in 1..Len(text) :
                          /\ ~IsWhiteSpace(text[k])
                          /\ \A j \in 1..(k - 1) : IsWhiteSpace(text[j])
                  ELSE Len(text) + 1
        signed == first <= Len(text) /\ text[first] \in {43, 45}
        from   == IF signed THEN first + 1 ELSE first
        upto   == CHOOSE e \in (from - 1)..Len(text) :
                      /\ \A j \in from..e : text[j] \in 48..57
                      /\ (e < Len(text) => text[e + 1] \notin 48..57)
        value[e \in (from - 1)..Len(text)] ==
            IF e < from THEN 0 ELSE value[e - 1] * 10 + (text[e] - 48)
    IN  [found |-> upto >= from,
         n     |-> IF signed /\ text[first] = 45 THEN -value[upto] ELSE value[upto]]

-----------------------------------------------------------------------------
(* Properties of validateTask *)

\* C9: validateTask returns, in the fixed order, exactly the messages of
\* the violated rules, each rule judged on its own: the title is a string
\* that is not blank; a title is at most 200 characters; a description
\* that is given is a string; a description is at most 1000 characters;
\* completed, when given, is a boolean; a priority that is given is one of
\* low, medium, high.
C9_MessagesOfViolatedRules ==
    resp.op = "validateTask" =>
        LET c == resp.task
            titleMissing == c.title.t # "string" \/ Trim(c.title.s) = <<>>
            titleLong    == c.title.t = "string" /\ Len(c.title.s) > TitleLimit
            descType     == c.description \notin {Undefined, Null}
                               /\ c.description.t # "string"
            descLong     == c.description.t = "string"
                               /\ Len(c.description.s) > DescriptionLimit
            completedBad == c.completed # Undefined /\ c.completed.t # "boolean"
            priorityBad  == c.priority \notin {Undefined, Null}
                               /\ c.priority \notin Priorities
        IN  resp.details =
                   (IF titleMissing THEN <<MsgTitleRequired>> ELSE <<>>)
                \o (IF titleLong THEN <<MsgTitleLength>> ELSE <<>>)
                \o (IF descType THEN <<MsgDescString>> ELSE <<>>)
                \o (IF descLong THEN <<MsgDescLength>> ELSE <<>>)
                \o (IF completedBad THEN <<MsgCompleted>> ELSE <<>>)
                \o (IF priorityBad THEN <<MsgPriority>> ELSE <<>>)

-----------------------------------------------------------------------------
(* Properties of single requests on the record store *)

\* the value createTask is documented to store for an optional field: the
\* supplied value, or the default when the body omits the field
SuppliedOr(value, default) == IF value = Undefined THEN default ELSE value

\* C11: after a successful POST /tasks, GET /tasks/:id with the returned
\* id answers 200 with the record the POST returned, whose title is the
\* trimmed input title and whose description, completed and priority are
\* the supplied values, or "", false and medium where the body omits them.
C11_CreateThenFind ==
    [][(resp'.op = "POST" /\ resp'.status = 201) =>
          \A body \in PostBodies, d2 \in 0..1 :
              PostTasks(body, 0, d2) =>
              LET found == GetTaskReply(tasks', resp'.task.id) IN
              /\ found.status = 200
              /\ found.task = resp'.task
              /\ found.task.title = Str(Trim(body.title.s))
              /\ found.task.description = SuppliedOr(body.description, Str(<<>>))
              /\ found.task.completed = SuppliedOr(body.completed, Bool(FALSE))
              /\ found.task.priority = SuppliedOr(body.priority, Str(S_medium))
              /\ found.task.id = Uuid(nextId)
              /\ found.task.createdAt = Iso(now)
              /\ found.task.updatedAt = Iso(now + d2)]_vars

\* the fields of a task other than updatedAt
KeptFields == {"id", "title", "description", "completed", "priority", "createdAt"}

\* C12: a successful PUT /tasks/:id leaves every field that the body omits,
\* other than updatedAt, at its value before the update, leaves every other
\* task as it was, and keeps the length and the order of the collection.
C12_PartialUpdate ==
    [][(resp'.op = "PUT" /\ resp'.status = 200) =>
          \A id \in IdParams, body \in PutBodies :
              PutTask(id, body, now' - now) =>
              LET i == FindIndex(tasks, id) IN
              /\ Len(tasks') = Len(tasks)
              /\ \A j \in Positions \ {i} : tasks'[j] = tasks[j]
              /\ \A f \in KeptFields :
                    IF body[f] = Undefined
                    THEN tasks'[i][f] = tasks[i][f]
                    ELSE tasks'[i][f] = body[f]
              /\ resp'.task = tasks'[i]]_vars

\* PUT {completed: true} on the second of two tasks has set completed and
\* kept the title "a", the description "" and the priority medium
C12_Witness ==
    /\ resp.op = "PUT"
    /\ resp.status = 200
    /\ Len(tasks) = 2
    /\ tasks[1].completed = Bool(FALSE)
    /\ tasks[2] = resp.task
    /\ tasks[2].id = Uuid(2)
    /\ tasks[2].title = Str(<<97>>)
    /\ tasks[2].description = Str(<<>>)
    /\ tasks[2].completed = Bool(TRUE)
    /\ tasks[2].priority = Str(S_medium)

\* C13: every successful PUT /tasks/:id stores an updatedAt strictly
\* greater than the one the task had before the update.
C13_UpdatedAtIncreases ==
    [][(resp'.op = "PUT" /\ resp'.status = 200) =>
          \A id \in IdParams, body \in PutBodies :
              PutTask(id, body, now' - now) =>
              LET i == FindIndex(tasks, id) IN
              LessThan(tasks[i].updatedAt, tasks'[i].updatedAt)]_vars

\* C14: DELETE /tasks/:id answers 404 and changes nothing when no task has
\* the id; otherwise it answers 204, removes that one task and keeps the
\* others in their order, and the id is then gone, so that the same DELETE
\* again answers 404.
C14_DeleteOnce ==
    [][resp'.op = "DELETE" =>
          \A id \in IdParams :
              DeleteTask(id) =>
                  LET i == FindIndex(tasks, id) IN
                  IF \A j \in Positions : tasks[j].id # id
                  THEN resp'.status = 404 /\ tasks' = tasks
                  ELSE /\ resp'.status = 204
                       /\ tasks[i].id = id
                       /\ tasks' = Splice(tasks, i)
                       /\ \A j \in 1..Len(tasks') : tasks'[j].id # id]_vars

\* C15: a POST /tasks whose body fails validation, and a PUT /tasks/:id
\* whose merged task fails validation, answer 400 with a non-empty details
\* list and leave the collection as it was; a PUT answers 200 only when
\* the merged task it stores passes validation.
C15_RejectedLeavesStore ==
    [][resp'.op \in {"POST", "PUT"} =>
          /\ resp'.status = 400 => (tasks' = tasks /\ Len(resp'.details) > 0)
          /\ (resp'.op = "PUT" /\ resp'.status = 200) =>
                 Len(validateTask(resp'.task)) = 0
          /\ resp'.op = "POST" =>
                 \A body \in PostBodies, d2 \in 0..1 :
                     PostTasks(body, 0, d2) =>
                         IF Len(validateTask(body)) > 0
                         THEN resp'.status = 400 /\ resp'.details = validateTask(body)
                         ELSE resp'.status = 201]_vars

\* a POST of {title: "a", description: 7, completed: "true", priority: "x"}
\* was answered 400 with three messages while a task is stored
C15_Witness ==
    /\ resp.op = "POST"
    /\ resp.status = 400
    /\ resp.details = <<MsgDescString, MsgCompleted, MsgPriority>>
    /\ Len(tasks) = 1

\* a PUT of {title: "", priority: "x"} on a stored task was answered 400
C15_WitnessPut ==
    /\ resp.op = "PUT"
    /\ resp.status = 400
    /\ resp.details = <<MsgTitleRequired, MsgPriority>>
    /\ Len(tasks) = 2

-----------------------------------------------------------------------------
(* Properties of the filter, search and sort stages of GET /tasks *)

\* the set of the positions a listing returns
ItemSet == {resp.items[k] : k \in 1..Len(resp.items)}

\* the last request was a GET /tasks with no page and no limit
Unpaged ==
    /\ resp.op = "GET"
    /\ resp.query.page = Undefined
    /\ resp.query.limit = Undefined

\* the stored tasks that satisfy the completed and priority filters of q
Selected(q) ==
    { i \in Positions :
        /\ q.completed # Undefined => tasks[i].completed = Bool(q.completed = Str(S_true))
        /\ q.priority # Undefined => tasks[i].priority = q.priority }

ContainsIgnoringCase(text, term) ==
    \E k \in 0..(Len(text) - Len(term)) :
        \A j \in 1..Len(term) :
            ToLowerCase(<<text[k + j]>>) = ToLowerCase(<<term[j]>>)

\* the task has the term in its title or in its description
HasTerm(task, term) ==
    \/ task.title.t = "string" /\ ContainsIgnoringCase(task.title.s, term)
    \/ task.description.t = "string" /\ ContainsIgnoringCase(task.description.s, term)

\* C17: a GET /tasks with a search term and no other filter answers 200
\* and lists exactly the tasks that have the term, letter case ignored, in
\* the title or in the description; the empty term lists every task.
C17_SearchKeeps ==
    ( /\ Unpaged
      /\ resp.query.search # Undefined
      /\ resp.query.completed = Undefined
      /\ resp.query.priority = Undefined ) =>
        /\ resp.status = 200
        /\ ItemSet = {i \in Positions : HasTerm(tasks[i], resp.query.search.s)}
        /\ Len(resp.items) = Cardinality(ItemSet)

\* the value a listing sorts a task by
SortKey(task) ==
    Property(task, IF resp.query.sortBy = Undefined THEN S_createdAt
                   ELSE resp.query.sortBy.s)

C19_DescendingByDefault ==
    (Listed /\ resp.query.sortOrder = Undefined) =>
        \A k \in 1..(Len(resp.items) - 1) :
            ~LessThan(SortKey(tasks[resp.items[k]]), SortKey(tasks[resp.items[k + 1]]))

-----------------------------------------------------------------------------
(* Properties of the users API *)

\* the request passes validateUser
Acceptable(userReq) == Len(validateUser(userReq)) = 0

\* C20: no two rows of users have the same email, whatever the
\* interleaving of the handlers; a POST /users whose email is the email of
\* a row, and a PUT /users/:id of a row whose new email is the email of
\* another row, answer 409 'Email already exists'; and a request answered
\* 409 leaves the table as it was.
C20_EmailsUnique ==
    /\ [](\A row1, row2 \in users : row1.email = row2.email => row1 = row2)
    /\ [][reply' # reply =>
             /\ reply'.status = 409 => users' = users
             /\ reply'.op = "POST" =>
                   \A userReq \in UserRequests :
                       (/\ Acceptable(userReq)
                        /\ \E row \in users : row.email = userReq.email
                        /\ CreateUserExec(userReq)) =>
                           /\ reply'.status = 409
                           /\ reply'.error = "Email already exists"
                           /\ users' = users
             /\ reply'.op = "PUT" =>
                   \A userID \in UserIdParams, userReq \in UserRequests :
                       (/\ Acceptable(userReq)
                        /\ \E row \in users : row.id = userID
                        /\ \E row \in users : row.id # userID /\ row.email = userReq.email
                        /\ UpdateUserExec(userID, userReq)) =>
                           /\ reply'.status = 409
                           /\ reply'.error = "Email already exists"
                           /\ users' = users]_vars

\* a PUT that would give the second user the email of the first was
\* answered 409 while a handler is still before its SELECT
C20_Witness ==
    /\ reply.op = "PUT"
    /\ reply.status = 409
    /\ Cardinality(users) = 2
    /\ BagCardinality(pending) > 0

\* validateUser has just been called on the candidate reply.user
Validated == reply.op = "validateUser"

\* the text has no byte other than white space
Blank(text) == \A k \in 1..Len(text) : text[k] \in {9, 10, 11, 12, 13, 32}

\* the text holds the byte c
Holds(text, c) == \E k \in 1..Len(text) : text[k] = c

\* the messages among `messages`, in their order, whose rule `violated`
\* names
MessagesOf(messages, violated) == SelectSeq(messages, LAMBDA m : m \in violated)

RowOf(table, id) == CHOOSE row \in table : row.id = id

\* C22: a PUT /users/:id that is applied leaves every field whose key the
\* body lacks at its value before the update, leaves id and created_at as
\* they were, and leaves every other row alone.
C22_UserFieldsMerged ==
    [][(users' # users /\ lastId' = lastId /\ pending' # pending) =>
          \A userID \in UserIdParams, body \in UserBodies :
              UpdateUserExec(userID, Decode(body)) =>
                  LET old == RowOf(users, userID)
                      new == RowOf(users', userID)
                  IN  /\ users' \ {new} = users \ {old}
                      /\ new.id = old.id
                      /\ new.created_at = old.created_at
                      /\ "name" \notin body.given => new.name = old.name
                      /\ "email" \notin body.given => new.email = old.email
                      /\ "age" \notin body.given => new.age = old.age]_vars

\* C23: GET /users answers with all the rows of the table, count is their
\* number, and a user created after another one (the ids are handed out in
\* the order of creation) stands before it in the list.
C23_NewestFirst ==
    [][(reply'.op = "GETUSERS" /\ users' = users /\ pending' = pending) =>
          LET list == reply'.list IN
          /\ reply'.status = 200
          /\ {list[k] : k \in 1..Len(list)} = users
          /\ Len(list) = Cardinality(users)
          /\ reply'.count = Len(list)
          /\ \A i, j \in 1..Len(list) : list[i].id > list[j].id => i < j]_vars

\* C24: every request is one step on the collection, so that concurrent
\* requests act in some serial order; in every such order a POST /tasks
\* answered 201 adds one task with the (trimmed) title it sent and an id no
\* other task has, and a PUT /tasks/:id answered 200 leaves the task under
\* the id it was addressed by, holding the fields this PUT wrote, whatever
\* earlier updates wrote.
C24_SerialOutcome ==
    [][/\ (resp'.op = "POST" /\ resp'.status = 201 /\ nextId' # nextId) =>
            /\ tasks' = Append(tasks, resp'.task)
            /\ \A j \in Positions : tasks[j].id # resp'.task.id
            /\ \A body \in PostBodies :
                  PostTasks(body, 0, now' - now) =>
                      resp'.task.title = Str(Trim(body.title.s))
       /\ (resp'.op = "PUT" /\ resp'.status = 200) =>
            \A id \in IdParams, body \in PutBodies :
                PutTask(id, body, now' - now) =>
                LET i == FindIndex(tasks, id) IN
                /\ Len(tasks') = Len(tasks)
                /\ \A j \in Positions \ {i} : tasks'[j] = tasks[j]
                /\ resp'.task = tasks'[i]
                /\ \A f \in KeptFields \ {"id"} :
                      body[f] # Undefined => tasks'[i][f] = body[f]
                /\ tasks'[i].id = id
                /\ FindIndex(tasks', id) = i]_vars

\* the calls that answer in this step: they were past their statement, which
\* was applied to the table, and are now done
Answering == {call \in BagToSet(pending) : CopiesIn(call, pending') < CopiesIn(call, pending)}

\* C25: under every interleaving of the handlers, a POST /users or
\* PUT /users/:id whose statement was applied to the table is never answered
\* with a 5xx failure: the POST is answered 201, the PUT 200, each with the
\* user of its id.
C25_AppliedIsAnswered ==
    [][\A call \in Answering :
          /\ reply'.status < 500
          /\ reply'.status = IF call.op = "POST" THEN 201 ELSE 200
          /\ reply'.user.id = call.id]_vars

\* C26: the tasks of a listing are in the order of the sort field,
\* ascending, or descending for sortOrder=desc: no task stands before a
\* task whose value is less (greater for desc) than its own; and tasks
\* with equal values stand in their order in the collection.
C26_SortedAndStable ==
    Listed =>
        \A k, l \in 1..Len(resp.items) :
            k < l =>
                LET a == SortKey(tasks[resp.items[k]])
                    b == SortKey(tasks[resp.items[l]])
                IN  /\ IF resp.query.sortOrder = Str(S_desc)
                       THEN ~LessThan(a, b)
                       ELSE ~LessThan(b, a)
                    /\ a = b => resp.items[k] < resp.items[l]

\* C27: a GET /tasks with sortBy=n, a field no task has, and with no search
\* answers 200 and lists the tasks that pass the filters in the order in
\* which they are stored, for sortOrder absent, 'DESC' and 'desc' alike.
C27_UnknownFieldKeepsOrder ==
    ( /\ Unpaged
      /\ resp.query.sortBy = Str(<<110>>)
      /\ resp.query.search = Undefined ) =>
        /\ resp.status = 200
        /\ ItemSet = Selected(resp.query)
        /\ \A k \in 1..(Len(resp.items) - 1) : resp.items[k] < resp.items[k + 1]

\* two tasks listed by sortBy=n, sortOrder=desc in the order of the
\* collection
C27_Witness ==
    /\ Unpaged
    /\ resp.status = 200
    /\ resp.query.sortBy = Str(<<110>>)
    /\ resp.query.sortOrder = Str(S_desc)
    /\ resp.items = <<1, 2>>

\* the completed task alone, of two, listed by completed=true, sortBy=n
C27_WitnessFiltered ==
    /\ Unpaged
    /\ resp.query.sortBy = Str(<<110>>)
    /\ resp.query.completed = Str(S_true)
    /\ Len(tasks) = 2
    /\ resp.items = <<2>>

\* C28: in a listing answered 200 whose startIndex = (page - 1) * limit is
\* at or beyond the number of filtered tasks, or is negative with
\* page <= 0 and limit > 0, the list is empty and total is the number of
\* filtered tasks.
C28_OutOfRangeIsEmpty ==
    Listed =>
        LET page       == resp.pagination.page.n
            limit      == resp.pagination.limit.n
            startIndex == (page - 1) * limit
            total      == Len(Filtered(tasks, resp.query))
        IN  (startIndex >= total \/ (startIndex < 0 /\ page <= 0 /\ limit > 0)) =>
                /\ resp.items = <<>>
                /\ resp.pagination.total = Num(total)

\* C29: a listing answered 200 holds at most limit tasks when limit > 0
\* and no task when limit <= 0, whatever the page and the size of the
\* collection.
C29_AtMostLimit ==
    Listed =>
        IF resp.pagination.limit.n > 0
        THEN Len(resp.items) <= resp.pagination.limit.n
        ELSE resp.items = <<>>

\* C30: GET /tasks, with any filter, search, sort and page, and
\* GET /tasks/:id leave the collection as it was: the same tasks with the
\* same values in the same order, whatever order the listing returns.
C30_ReadsKeepCollection ==
    [][resp'.op \in {"GET", "GETID"} => tasks' = tasks /\ nextId' = nextId]_vars

\* a listing has returned the second task before the first, and the
\* collection still holds them in the order of their creation
C30_Witness ==
    /\ Listed
    /\ resp.items = <<2, 1>>
    /\ Len(tasks) = 2
    /\ tasks[1].id = Uuid(1)
    /\ tasks[2].id = Uuid(2)

=============================================================================
